---- MODULE Spec2Model ----
(***************************************************************************)
(* Photo relay server: the Flask upload gateway, the file store under      *)
(* UPLOAD_DIR with its two listing routes, and the Socket.IO hub.          *)
(*                                                                         *)
(* Python values are encoded uniformly as records so that any two of them  *)
(* can be compared: None, Str(s), PyFloat(n), PyInt(n); a dict is a function   *)
(* from key strings to such values.                                        *)
(***************************************************************************)
EXTENDS Integers, Sequences, FiniteSets, TLC

\* ------------------------------------------------------------------ bounds
MaxSessions == 2    \* Socket.IO sessions ever opened
MaxUploads  == 2    \* POST /upload requests ever received
MaxInFlight == 1    \* POST /upload requests served at the same time
MaxCommands == 1    \* 'command' events ever received
MaxPings    == 1    \* 'ping' events ever received
MaxTorn     == 1    \* longest prefix the model lets a failed write leave behind
StartClock  == 9    \* wall clock (seconds) when the server starts
MaxClock    == 10   \* last second the model lets the wall clock reach

\* ------------------------------------------------------------ Python values
None     == [pynone |-> TRUE]
Str(s)   == [str |-> s]
PyFloat(n) == [float |-> n]
PyInt(n) == [int |-> n]

\* Python truthiness of an optional string: None and '' are falsy.
Truthy(v) == v # None /\ v # Str("")

\* a or b
PyOr(a, b) == IF Truthy(a) THEN a ELSE b

\* ------------------------------------------------------------ configuration
API_TOKEN == Str("secret_token_123")

\* a check that accepts the secret in either place, whatever the other holds
check_token_either(req) == req.header = API_TOKEN \/ req.arg = API_TOKEN

\* token = req.headers.get("X-API-Key") or req.args.get("token")
check_token(req) == PyOr(req.header, req.arg) = API_TOKEN

\* ------------------------------------------------------------------ inputs
FormKeys == <<"lat", "lon", "accuracy", "location_ts">>

NoForm    == [lat |-> None,        lon |-> None,         accuracy |-> None,     location_ts |-> None]
GeoForm   == [lat |-> Str("40.7"), lon |-> Str("-74.0"), accuracy |-> None,     location_ts |-> None]
NoLatForm == [lat |-> Str(""),     lon |-> Str("abc"),   accuracy |-> None,     location_ts |-> None]

\* request.files.get('photo'): None when the part is absent, else the client
\* filename and the bytes of the part
Photo(filename, data) == [filename |-> Str(filename), data |-> data]

\* the requests POST /upload receives: X-API-Key header, ?token= argument,
\* the photo part and the form fields
Requests ==
  { [header |-> Str("wrong"), arg |-> API_TOKEN,     photo |-> Photo("x.jpg", <<"a", "b">>), form |-> GeoForm],
    [header |-> None,         arg |-> None,          photo |-> Photo("x.jpg", <<>>),         form |-> NoForm],
    [header |-> None,         arg |-> Str("wrong"),  photo |-> None,                         form |-> NoLatForm],
    [header |-> API_TOKEN,    arg |-> None,          photo |-> None,                         form |-> GeoForm],
    [header |-> Str(""),      arg |-> API_TOKEN,     photo |-> Photo("", <<"a">>),           form |-> NoForm],
    [header |-> None,         arg |-> API_TOKEN,     photo |-> Photo("x.jpg", <<>>),         form |-> NoForm],
    [header |-> API_TOKEN,    arg |-> Str("wrong"),  photo |-> Photo("x.jpg", <<"a", "b">>), form |-> GeoForm],
    [header |-> Str(""),      arg |-> API_TOKEN,     photo |-> Photo("y.jpg", <<"c">>),      form |-> NoLatForm] }

\* data of a 'command' event: None, {}, or a dict with a type
CommandData == { None, [type |-> Str("TAKE_PHOTO")], [type |-> Str("SELF_DESTRUCT")] }

\* ------------------------------------------------------------------- state
VARIABLES
  clock,      \* wall clock, whole seconds
  dir,        \* UPLOAD_DIR: file name -> [bytes, mtime]
  connected,  \* sessions the hub holds as members
  dead,       \* members whose transport has silently died (no disconnect yet)
  nextSid,    \* next session id the transport hands out
  inbox,      \* per session: the events sent to it, in order
  issued,     \* every broadcast issued so far, with the membership at that moment
  up,         \* per handler slot: the upload request being served, or the last one served
  log,        \* per upload request, in order of arrival: generated name, status,
              \* second of arrival, and how its socketio.emit call went
  nCmd,       \* 'command' events handled so far
  nPing,      \* 'ping' events handled so far
  rx,         \* the last Socket.IO event a handler was called with, and its session
  closed,     \* sessions whose disconnect event has been handled
  resp        \* the HTTP response returned by the last step, if any

vars == <<clock, dir, connected, dead, nextSid, inbox, issued, up, log, nCmd, nPing,
          rx, closed, resp>>

Sessions == 1..MaxSessions
Slots    == 1..MaxInFlight
NoResp   == [route |-> "none"]
NoEvent  == [sid |-> 0, event |-> "none", data |-> None]

\* --------------------------------------------------------- names and clocks
\* datetime.now().strftime('%Y%m%d_%H%M%S'): fixed width, zero padded digits
strftime(t) == <<t \div 10, t % 10>>

\* f"photo_{ts}.jpg"
PhotoName(ts) == [stem |-> ts, ext |-> "jpg"]

\* os.path.splitext(name)[0] + '.json'
SidecarName(name) == [stem |-> name.stem, ext |-> "json"]

\* Python's < on two strings that differ only in the stem digits
RECURSIVE StrLess(_, _)
StrLess(a, b) ==
  IF b = <<>> THEN FALSE
  ELSE IF a = <<>> THEN TRUE
  ELSE IF Head(a) # Head(b) THEN Head(a) < Head(b)
  ELSE StrLess(Tail(a), Tail(b))

NameLess(m, n) == StrLess(m.stem, n.stem)

\* sorted(names, reverse=True)
RECURSIVE SortedDesc(_)
SortedDesc(S) ==
  IF S = {} THEN <<>>
  ELSE LET top == CHOOSE m \in S : \A n \in S \ {m} : NameLess(n, m)
       IN  <<top>> \o SortedDesc(S \ {top})

\* [f for f in os.listdir(UPLOAD_DIR) if f.lower().endswith('.jpg')]
Jpgs(d) == { n \in DOMAIN d : n.ext = "jpg" }

\* ------------------------------------------------------------------- files
\* open(path, 'w'/'wb') followed by a write of bytes b
WriteFile(d, name, b, now) ==
  [n \in DOMAIN d \cup {name} |->
     IF n = name THEN [bytes |-> b, mtime |-> now] ELSE d[n]]

\* the strict prefixes a write that failed midway can leave behind
Truncations(b) ==
  { SubSeq(b, 1, k) : k \in 0..(IF Len(b) - 1 < MaxTorn THEN Len(b) - 1 ELSE MaxTorn) }

\* ---------------------------------------------------------------- metadata
\* float(val): the strings Python parses, as tenths
FloatTable == [s \in {"40.7", "-74.0", "5", "12"} |->
                 CASE s = "40.7"  -> 407
                   [] s = "-74.0" -> -740
                   [] s = "5"     -> 50
                   [] s = "12"    -> 120]

\* a handler that stores every field as the string it was sent
ParseField_raw(val) == val

\* try: meta[key] = float(val)  except ValueError: meta[key] = val
ParseField(val) ==
  IF val.str \in DOMAIN FloatTable THEN PyFloat(FloatTable[val.str]) ELSE val

MetaKeys == FormKeys \o <<"received_ts", "photo_filename">>

\* lines 84-94: the dict the handler builds from the form
BuildMeta(form, fname, now) ==
  LET present == { FormKeys[i] : i \in { j \in 1..Len(FormKeys) : Truthy(form[FormKeys[j]]) } }
  IN  [k \in present \cup {"received_ts", "photo_filename"} |->
         CASE k = "received_ts"    -> PyInt(now)
           [] k = "photo_filename" -> fname
           [] OTHER                -> ParseField(form[k])]

\* json.dump(meta, fh): the key/value pairs in insertion order, then the closing brace
JsonEnd == <<"}", None>>
JsonDump(meta) ==
  LET keys == SelectSeq(MetaKeys, LAMBDA k : k \in DOMAIN meta)
  IN  [i \in 1..Len(keys) |-> <<keys[i], meta[keys[i]]>>] \o <<JsonEnd>>

\* json.load(fh): raises on a text that does not end with its closing brace
JsonValid(b) == Len(b) > 0 /\ b[Len(b)] = JsonEnd
JsonLoad(b) ==
  LET n == Len(b) - 1
  IN  [k \in { b[i][1] : i \in 1..n } |->
         LET i == CHOOSE j \in 1..n : b[j][1] = k IN b[i][2]]

\* 'lat' in meta and 'lon' in meta
HasLocation(meta) == "lat" \in DOMAIN meta /\ "lon" \in DOMAIN meta

\* --------------------------------------------------------------------- hub
\* emit(event, data) inside a handler without broadcast: to the requesting session only
EmitTo(box, c, event, data) ==
  [box EXCEPT ![c] = Append(@, [bid |-> 0, event |-> event, data |-> data])]

\* a fan-out that walks the members in order and gives up at the first dead transport
Deliver_blocking(box, members, gone, bid, event, data) ==
  [c \in Sessions |->
     IF c \in members /\ \A g \in members \cap gone : c < g
       THEN Append(box[c], [bid |-> bid, event |-> event, data |-> data])
       ELSE box[c]]

\* emit(..., broadcast=True) / socketio.emit(...): one packet queued for every member
\* of the hub at this moment; a packet for a dead transport is dropped
Deliver(box, members, gone, bid, event, data) ==
  [c \in Sessions |->
     IF c \in members \ gone
       THEN Append(box[c], [bid |-> bid, event |-> event, data |-> data])
       ELSE box[c]]

Broadcast(event, data) ==
  /\ issued' = Append(issued, [event |-> event, data |-> data, opened |-> nextSid - 1,
                               members |-> connected, live |-> connected \ dead])
  /\ inbox' = Deliver(inbox, connected, dead, Len(issued) + 1, event, data)

\* a hub that keeps the broadcasts and replays them to a session that connects
on_connect_replay ==
  /\ nextSid <= MaxSessions
  /\ connected' = connected \cup {nextSid}
  /\ nextSid' = nextSid + 1
  /\ inbox' = [inbox EXCEPT ![nextSid] =
                 <<[bid |-> 0, event |-> "server_info",
                    data |-> [message |-> Str("connected"), time |-> PyInt(clock),
                              sid |-> PyInt(nextSid)]]>>
                 \o [b \in 1..Len(issued) |->
                       [bid |-> b, event |-> issued[b].event, data |-> issued[b].data]]]
  /\ resp' = NoResp
  /\ UNCHANGED <<clock, dir, dead, issued, up, log, nCmd, nPing, rx, closed>>

on_connect ==
  /\ nextSid <= MaxSessions
  /\ connected' = connected \cup {nextSid}
  /\ nextSid' = nextSid + 1
  /\ inbox' = EmitTo(inbox, nextSid, "server_info",
                     [message |-> Str("connected"), time |-> PyInt(clock), sid |-> PyInt(nextSid)])
  /\ resp' = NoResp
  /\ UNCHANGED <<clock, dir, dead, issued, up, log, nCmd, nPing, rx, closed>>

\* a hub that keeps the session of a closed connection for a reconnection window
on_disconnect_grace(c) ==
  /\ c \in connected
  /\ c \notin closed
  /\ closed' = closed \cup {c}
  /\ dead' = dead \ {c}
  /\ resp' = NoResp
  /\ UNCHANGED <<clock, dir, connected, nextSid, inbox, issued, up, log, nCmd, nPing, rx>>

on_disconnect(c) ==
  /\ c \in connected
  /\ connected' = connected \ {c}
  /\ closed' = closed \cup {c}
  /\ dead' = dead \ {c}
  /\ resp' = NoResp
  /\ UNCHANGED <<clock, dir, nextSid, inbox, issued, up, log, nCmd, nPing, rx>>

\* the transport of a member dies without a disconnect; the hub keeps the member
\* until the ping timeout fires on_disconnect
TransportDies(c) ==
  /\ c \in connected \ dead
  /\ dead' = dead \cup {c}
  /\ resp' = NoResp
  /\ UNCHANGED <<clock, dir, connected, nextSid, inbox, issued, up, log, nCmd, nPing, rx, closed>>

\* ctype = (data or {}).get('type')
CommandType(data) ==
  IF data # None /\ "type" \in DOMAIN data THEN data["type"] ELSE None

\* emit(..., broadcast=True, include_self=False): every member but the sender
on_command_others(c, data) ==
  /\ c \in connected \ dead
  /\ nCmd < MaxCommands
  /\ nCmd' = nCmd + 1
  /\ rx' = [sid |-> c, event |-> "command", data |-> data]
  /\ issued' = Append(issued, [event |-> "command", data |-> [type |-> CommandType(data)],
                               opened |-> nextSid - 1, members |-> connected,
                               live |-> connected \ dead])
  /\ inbox' = Deliver(inbox, connected \ {c}, dead, Len(issued) + 1, "command",
                      [type |-> CommandType(data)])
  /\ resp' = NoResp
  /\ UNCHANGED <<clock, dir, connected, dead, nextSid, up, log, nPing, closed>>

on_command(c, data) ==
  /\ c \in connected \ dead
  /\ nCmd < MaxCommands
  /\ nCmd' = nCmd + 1
  /\ rx' = [sid |-> c, event |-> "command", data |-> data]
  /\ Broadcast("command", [type |-> CommandType(data)])
  /\ resp' = NoResp
  /\ UNCHANGED <<clock, dir, connected, dead, nextSid, up, log, nPing, closed>>

\* emit('pong', ..., broadcast=True): the acknowledgment goes to every member
handle_ping_broadcast(c) ==
  /\ c \in connected \ dead
  /\ nPing < MaxPings
  /\ nPing' = nPing + 1
  /\ rx' = [sid |-> c, event |-> "ping", data |-> None]
  /\ inbox' = [d \in Sessions |->
                 IF d \in connected \ dead
                   THEN Append(inbox[d], [bid |-> 0, event |-> "pong",
                                          data |-> [timestamp |-> PyInt(clock)]])
                   ELSE inbox[d]]
  /\ resp' = NoResp
  /\ UNCHANGED <<clock, dir, connected, dead, nextSid, issued, up, log, nCmd, closed>>

handle_ping(c) ==
  /\ c \in connected \ dead
  /\ nPing < MaxPings
  /\ nPing' = nPing + 1
  /\ rx' = [sid |-> c, event |-> "ping", data |-> None]
  /\ inbox' = EmitTo(inbox, c, "pong", [timestamp |-> PyInt(clock)])
  /\ resp' = NoResp
  /\ UNCHANGED <<clock, dir, connected, dead, nextSid, issued, up, log, nCmd, closed>>

\* ------------------------------------------------------------------ upload
Json(status, body) == [route |-> "/upload", status |-> status, body |-> body]

\* a handler slot: the request it serves and how far the handler has come
Idle == [rid |-> 0, req |-> None, pc |-> "idle", fname |-> None, meta |-> None,
         saveRes |-> "none", metaRes |-> "none", emitRes |-> "none", bid |-> 0,
         status |-> 0, body |-> None]

Reject(rid, req, status, error) ==
  [Idle EXCEPT !.rid = rid, !.req = req, !.pc = "done", !.status = status,
               !.body = [ok |-> FALSE, error |-> Str(error)]]

\* lines 58-74: token, 'photo' in request.files, f.filename, the generated name
UploadAccept(rid, req, now) ==
  IF ~check_token(req) THEN Reject(rid, req, 401, "Unauthorized")
  ELSE IF req.photo = None THEN Reject(rid, req, 400, "No file part: photo")
  ELSE IF req.photo.filename = Str("") THEN Reject(rid, req, 400, "Empty filename")
  ELSE [Idle EXCEPT !.rid = rid, !.req = req, !.pc = "save",
                    !.fname = PhotoName(strftime(now))]

Free(s) == up[s].pc \in {"idle", "done"}

UploadBegin(req) ==
  /\ Len(log) < MaxUploads
  /\ \E s \in Slots :
       /\ Free(s)
       /\ \A t \in Slots : Free(t) => s <= t
       /\ LET u == UploadAccept(Len(log) + 1, req, clock)
          IN  /\ up' = [up EXCEPT ![s] = u]
              /\ log' = Append(log, [fname |-> u.fname, status |-> u.status, at |-> clock,
                                   emit |-> "none"])
              /\ resp' = IF u.pc = "done" THEN Json(u.status, u.body) ELSE NoResp
  /\ UNCHANGED <<clock, dir, connected, dead, nextSid, inbox, issued, nCmd, nPing, rx, closed>>

\* the except branch without its return: the handler goes on after a failed save
SaveOutcome_fallthrough(u, d, res, left, now) ==
  [u |-> [u EXCEPT !.pc = "meta", !.saveRes = res,
                   !.meta = BuildMeta(u.req.form, u.fname, now)],
   dir |-> CASE res = "ok"           -> WriteFile(d, u.fname, u.req.photo.data, now)
             [] res = "write_failed" -> WriteFile(d, u.fname, left, now)
             [] OTHER                -> d]

\* a save that does not overwrite: the image already stored under the name stays
SaveOutcome_keepfirst(u, d, res, left, now) ==
  IF res = "ok"
    THEN [u |-> [u EXCEPT !.pc = "meta", !.saveRes = res,
                          !.meta = BuildMeta(u.req.form, u.fname, now)],
          dir |-> IF u.fname \in DOMAIN d THEN d
                  ELSE WriteFile(d, u.fname, u.req.photo.data, now)]
    ELSE [u |-> [u EXCEPT !.pc = "done", !.saveRes = res, !.status = 500,
                          !.body = [ok |-> FALSE, error |-> Str("Error saving file")]],
          dir |-> IF res = "write_failed" THEN WriteFile(d, u.fname, left, now) ELSE d]

\* lines 76-94: f.save(save_path); on an exception 500, else the metadata dict
SaveOutcome(u, d, res, left, now) ==
  IF res = "ok"
    THEN [u |-> [u EXCEPT !.pc = "meta", !.saveRes = res,
                          !.meta = BuildMeta(u.req.form, u.fname, now)],
          dir |-> WriteFile(d, u.fname, u.req.photo.data, now)]
    ELSE [u |-> [u EXCEPT !.pc = "done", !.saveRes = res, !.status = 500,
                          !.body = [ok |-> FALSE, error |-> Str("Error saving file")]],
          dir |-> IF res = "write_failed" THEN WriteFile(d, u.fname, left, now) ELSE d]

UploadSave(s) ==
  /\ up[s].pc = "save"
  /\ \E res \in {"ok", "open_failed", "write_failed"} :
       \E left \in (IF res = "write_failed" THEN Truncations(up[s].req.photo.data) ELSE {<<>>}) :
         LET o == SaveOutcome(up[s], dir, res, left, clock)
         IN  /\ up' = [up EXCEPT ![s] = o.u]
             /\ dir' = o.dir
             /\ log' = [log EXCEPT ![o.u.rid].status = o.u.status]
             /\ resp' = IF o.u.pc = "done" THEN Json(o.u.status, o.u.body) ELSE NoResp
  /\ UNCHANGED <<clock, connected, dead, nextSid, inbox, issued, nCmd, nPing, rx, closed>>

\* a sidecar failure treated like an image failure: 500 and no notification
MetaOutcome_fatal(u, d, res, left, now) ==
  IF res = "ok"
    THEN [u |-> [u EXCEPT !.pc = "notify", !.metaRes = res],
          dir |-> WriteFile(d, SidecarName(u.fname), JsonDump(u.meta), now)]
    ELSE [u |-> [u EXCEPT !.pc = "done", !.metaRes = res, !.status = 500,
                          !.body = [ok |-> FALSE, error |-> Str("Error saving metadata")]],
          dir |-> IF res = "write_failed" THEN WriteFile(d, SidecarName(u.fname), left, now) ELSE d]

\* lines 96-103: the sidecar; an exception is printed and the handler goes on
MetaOutcome(u, d, res, left, now) ==
  [u |-> [u EXCEPT !.pc = "notify", !.metaRes = res],
   dir |-> CASE res = "ok"           -> WriteFile(d, SidecarName(u.fname), JsonDump(u.meta), now)
             [] res = "write_failed" -> WriteFile(d, SidecarName(u.fname), left, now)
             [] OTHER                -> d]

UploadMeta(s) ==
  /\ up[s].pc = "meta"
  /\ \E res \in {"ok", "open_failed", "write_failed"} :
       \E left \in (IF res = "write_failed" THEN Truncations(JsonDump(up[s].meta)) ELSE {<<>>}) :
         LET o == MetaOutcome(up[s], dir, res, left, clock)
         IN  /\ up' = [up EXCEPT ![s] = o.u]
             /\ dir' = o.dir
  /\ resp' = NoResp
  /\ UNCHANGED <<clock, connected, dead, nextSid, inbox, issued, log, nCmd, nPing, rx, closed>>

\* has_location computed as 'lat' in meta or 'lon' in meta
NewPhotoEvent_anyloc(u) ==
  [filename |-> u.fname, timestamp |-> u.meta["received_ts"],
   has_location |-> "lat" \in DOMAIN u.meta \/ "lon" \in DOMAIN u.meta]

\* lines 107-111: the payload of new_photo
NewPhotoEvent(u) ==
  [filename |-> u.fname, timestamp |-> u.meta["received_ts"], has_location |-> HasLocation(u.meta)]

\* lines 116-120
UploadOk(u) ==
  [ok |-> TRUE, filename |-> u.fname, timestamp |-> u.meta["received_ts"]]

\* lines 105-120: socketio.emit inside try/except, then the 200 response
NotifyOutcome(u, res, bid) ==
  [u EXCEPT !.pc = "done", !.emitRes = res, !.bid = IF res = "ok" THEN bid ELSE 0,
            !.status = 200, !.body = UploadOk(u)]

\* an emit that is sent again after the first send: two broadcasts for one upload
UploadNotify_twice(s) ==
  /\ up[s].pc = "notify"
  /\ \E res \in {"ok", "raised"} :
       LET u  == NotifyOutcome(up[s], res, Len(issued) + 1)
           ev == [event |-> "new_photo", data |-> NewPhotoEvent(up[s]), opened |-> nextSid - 1,
                  members |-> connected, live |-> connected \ dead]
       IN  /\ up' = [up EXCEPT ![s] = u]
           /\ IF res = "ok"
                THEN /\ issued' = issued \o <<ev, ev>>
                     /\ inbox' = Deliver(Deliver(inbox, connected, dead, Len(issued) + 1,
                                                 ev.event, ev.data),
                                         connected, dead, Len(issued) + 2, ev.event, ev.data)
                ELSE UNCHANGED <<inbox, issued>>
           /\ log' = [log EXCEPT ![u.rid].status = u.status, ![u.rid].emit = res]
           /\ resp' = Json(u.status, u.body)
  /\ UNCHANGED <<clock, dir, connected, dead, nextSid, nCmd, nPing, rx, closed>>

UploadNotify(s) ==
  /\ up[s].pc = "notify"
  /\ \E res \in {"ok", "raised"} :
       LET u == NotifyOutcome(up[s], res, Len(issued) + 1)
       IN  /\ up' = [up EXCEPT ![s] = u]
           /\ IF res = "ok" THEN Broadcast("new_photo", NewPhotoEvent(up[s]))
                            ELSE UNCHANGED <<inbox, issued>>
           /\ log' = [log EXCEPT ![u.rid].status = u.status, ![u.rid].emit = res]
           /\ resp' = Json(u.status, u.body)
  /\ UNCHANGED <<clock, dir, connected, dead, nextSid, nCmd, nPing, rx, closed>>

\* ---------------------------------------------------------------- listings
\* lines 127-136
LatestResponse(d) ==
  LET files == SortedDesc(Jpgs(d))
  IN  IF files = <<>>
        THEN [route |-> "/api/latest", status |-> 200,
              body |-> [ok |-> TRUE, filename |-> None]]
        ELSE [route |-> "/api/latest", status |-> 200,
              body |-> [ok |-> TRUE, filename |-> files[1], timestamp |-> PyInt(d[files[1]].mtime)]]

api_latest ==
  /\ resp' = LatestResponse(dir)
  /\ UNCHANGED <<clock, dir, connected, dead, nextSid, inbox, issued, up, log, nCmd, nPing, rx, closed>>

\* lines 150-156: one image's metadata; "raised" when json.load fails
ReadMeta(d, j) ==
  LET meta_file == SidecarName(j)
  IN  IF meta_file \notin DOMAIN d THEN [raised |-> FALSE, meta |-> None]
      ELSE IF ~JsonValid(d[meta_file].bytes) THEN [raised |-> TRUE, meta |-> None]
      ELSE [raised |-> FALSE, meta |-> JsonLoad(d[meta_file].bytes)]

\* lines 143-163
AllResponse(d) ==
  LET jpgs == SortedDesc(Jpgs(d))
      read == [i \in 1..Len(jpgs) |-> ReadMeta(d, jpgs[i])]
  IN  IF \E i \in 1..Len(jpgs) : read[i].raised
        THEN [route |-> "/api/all", status |-> 500,
              body |-> [ok |-> FALSE, error |-> Str("JSONDecodeError")]]
        ELSE [route |-> "/api/all", status |-> 200,
              body |-> [ok |-> TRUE,
                        files |-> [i \in 1..Len(jpgs) |->
                                     [filename |-> jpgs[i], metadata |-> read[i].meta]]]]

api_all ==
  /\ resp' = AllResponse(dir)
  /\ UNCHANGED <<clock, dir, connected, dead, nextSid, inbox, issued, up, log, nCmd, nPing, rx, closed>>

\* lines 167-174
health ==
  /\ resp' = [route |-> "/health", status |-> 200,
              body |-> [ok |-> TRUE, status |-> Str("running"), timestamp |-> PyInt(clock)]]
  /\ UNCHANGED <<clock, dir, connected, dead, nextSid, inbox, issued, up, log, nCmd, nPing, rx, closed>>

\* ------------------------------------------------------------ specification
\* the wall clock advances by one second
Tick ==
  /\ clock < MaxClock
  /\ clock' = clock + 1
  /\ resp' = NoResp
  /\ UNCHANGED <<dir, connected, dead, nextSid, inbox, issued, up, log, nCmd, nPing, rx, closed>>

\* os.makedirs(UPLOAD_DIR): an empty directory, no session, nothing in flight
Init ==
  /\ clock = StartClock
  /\ dir = <<>>
  /\ connected = {}
  /\ dead = {}
  /\ nextSid = 1
  /\ inbox = [c \in Sessions |-> <<>>]
  /\ issued = <<>>
  /\ up = [s \in Slots |-> Idle]
  /\ log = <<>>
  /\ nCmd = 0
  /\ nPing = 0
  /\ rx = NoEvent
  /\ closed = {}
  /\ resp = NoResp

Next ==
  \/ Tick
  \/ on_connect
  \/ \E c \in Sessions : on_disconnect(c)
  \/ \E c \in Sessions : TransportDies(c)
  \/ \E c \in Sessions, data \in CommandData : on_command(c, data)
  \/ \E c \in Sessions : handle_ping(c)
  \/ \E req \in Requests : UploadBegin(req)
  \/ \E s \in Slots : UploadSave(s)
  \/ \E s \in Slots : UploadMeta(s)
  \/ \E s \in Slots : UploadNotify(s)
  \/ api_latest
  \/ api_all
  \/ health

Spec == Init /\ [][Next]_vars

\* the store and its listings on their own: no session ever connects
NextStore ==
  \/ Tick
  \/ \E req \in Requests : UploadBegin(req)
  \/ \E s \in Slots : UploadSave(s)
  \/ \E s \in Slots : UploadMeta(s)
  \/ \E s \in Slots : UploadNotify(s)
  \/ api_latest
  \/ api_all

SpecStore == Init /\ [][NextStore]_vars

\* the upload gateway in front of the hub, within one wall-clock second
NextGateway ==
  \/ on_connect
  \/ \E c \in Sessions : on_disconnect(c)
  \/ \E c \in Sessions : TransportDies(c)
  \/ \E c \in Sessions, data \in CommandData : on_command(c, data)
  \/ \E req \in Requests : UploadBegin(req)
  \/ \E s \in Slots : UploadSave(s)
  \/ \E s \in Slots : UploadMeta(s)
  \/ \E s \in Slots : UploadNotify(s)

SpecGateway == Init /\ [][NextGateway]_vars

\* the hub on its own: no upload is ever received
NextHub ==
  \/ Tick
  \/ on_connect
  \/ \E c \in Sessions : on_disconnect(c)
  \/ \E c \in Sessions : TransportDies(c)
  \/ \E c \in Sessions, data \in CommandData : on_command(c, data)
  \/ \E c \in Sessions : handle_ping(c)

SpecHub == Init /\ [][NextHub]_vars

\* the requests that carry the two-byte photo: one refused, one accepted
FewRequests == { r \in Requests : r.photo # None /\ r.photo.data = <<"a", "b">> }

\* hub and upload gateway with every Socket.IO handler, within one wall-clock second
NextMembers ==
  \/ on_connect
  \/ \E c \in Sessions : on_disconnect(c)
  \/ \E c \in Sessions : TransportDies(c)
  \/ \E c \in Sessions, data \in CommandData : on_command(c, data)
  \/ \E c \in Sessions : handle_ping(c)
  \/ \E req \in FewRequests : UploadBegin(req)
  \/ \E s \in Slots : UploadSave(s)
  \/ \E s \in Slots : UploadMeta(s)
  \/ \E s \in Slots : UploadNotify(s)

SpecMembers == Init /\ [][NextMembers]_vars

\* request.form of an upload: each field absent, empty, a number or another text
MetaForms ==
  [lat         : {None, Str(""), Str("40.7"),  Str("abc")},
   lon         : {None, Str(""), Str("-74.0"), Str("abc")},
   accuracy    : {None, Str(""), Str("5"),     Str("abc")},
   location_ts : {None, Str(""), Str("12"),    Str("abc")}]

MetaRequests ==
  { [header |-> API_TOKEN, arg |-> None, photo |-> Photo("x.jpg", <<"a">>), form |-> f] :
      f \in MetaForms }

\* the upload handler on its own, over every shape of the form
NextMeta ==
  \/ \E req \in MetaRequests : UploadBegin(req)
  \/ \E s \in Slots : UploadSave(s)
  \/ \E s \in Slots : UploadMeta(s)
  \/ \E s \in Slots : UploadNotify(s)

SpecMeta == Init /\ [][NextMeta]_vars

\* the handler is straight-line code after f.save: a request that has reached the
\* sidecar write or the emit takes that step, nothing makes it wait
SpecStoreFair ==
  /\ SpecStore
  /\ \A s \in Slots : WF_vars(UploadMeta(s)) /\ WF_vars(UploadNotify(s))

\* every kind of request next to the store, within one wall-clock second: uploads,
\* the listings, and the Socket.IO events of sessions that stay connected
NextFiles ==
  \/ on_connect
  \/ \E c \in Sessions, data \in CommandData : on_command(c, data)
  \/ \E c \in Sessions : handle_ping(c)
  \/ \E req \in Requests : UploadBegin(req)
  \/ \E s \in Slots : UploadSave(s)
  \/ \E s \in Slots : UploadMeta(s)
  \/ \E s \in Slots : UploadNotify(s)
  \/ api_latest
  \/ api_all
  \/ health

SpecFiles == Init /\ [][NextFiles]_vars

\* ------------------------------------------------------------------ claims
\* the token a request presents: the X-API-Key header, else the token argument
Presented(req) ==
  IF req.header # None /\ req.header # Str("") THEN req.header ELSE req.arg

BadToken(req) == Presented(req) = None \/ Presented(req) # API_TOKEN

Failed == {"open_failed", "write_failed"}

\* the events of broadcast b that session c was sent
Received(c, b) == { i \in 1..Len(inbox[c]) : inbox[c][i].bid = b }

\* C1: a step that takes in an upload request whose token is missing or differs
\* from the shared secret answers 401 Unauthorized, and leaves the directory, every
\* session's events and the list of broadcasts exactly as they were.
C1_UnauthorizedLeavesNoTrace ==
  [][ \A s \in Slots :
        (up'[s].rid # up[s].rid /\ BadToken(up'[s].req)) =>
          /\ up'[s].pc = "done"
          /\ up'[s].status = 401
          /\ resp' = Json(401, [ok |-> FALSE, error |-> Str("Unauthorized")])
          /\ dir' = dir
          /\ inbox' = inbox
          /\ issued' = issued ]_vars

C1_Witness ==
  \E s \in Slots :
    /\ up[s].status = 401
    /\ BadToken(up[s].req)
    /\ up[s].req.photo # None
    /\ up[s].req.photo.data # <<>>
    /\ connected \ dead # {}
    /\ Jpgs(dir) # {}

\* C2: an authorized upload whose photo part is absent or holds zero bytes is
\* answered 400 and writes no image.
C2_EmptyPayloadRejected ==
  \A s \in Slots :
    (/\ up[s].rid # 0
     /\ ~BadToken(up[s].req)
     /\ (up[s].req.photo = None \/ up[s].req.photo.data = <<>>)) =>
      /\ up[s].saveRes # "ok"
      /\ up[s].pc = "done" => up[s].status = 400

\* C3: when f.save fails, the handler ends with 500 in that very step, the
\* sidecar of the generated name is not touched, no session is sent anything, no
\* broadcast is issued, and the request takes no further step.
C3_SaveFailureStops ==
  [][ \A s \in Slots :
        /\ (up[s].pc = "save" /\ up'[s].saveRes \in Failed) =>
             /\ up'[s].pc = "done"
             /\ up'[s].status = 500
             /\ up'[s].metaRes = "none"
             /\ up'[s].emitRes = "none"
             /\ resp' = Json(500, up'[s].body)
             /\ log'[up[s].rid].status = 500
             /\ LET side == SidecarName(up[s].fname)
                IN  /\ (side \in DOMAIN dir') = (side \in DOMAIN dir)
                    /\ side \in DOMAIN dir => dir'[side] = dir[side]
             /\ inbox' = inbox
             /\ issued' = issued
        /\ (up[s].saveRes \in Failed /\ up'[s].rid = up[s].rid) => up'[s] = up[s] ]_vars

C3_Witness ==
  \E s \in Slots :
    /\ up[s].saveRes = "write_failed"
    /\ up[s].status = 500
    /\ up[s].fname \in DOMAIN dir
    /\ SidecarName(up[s].fname) \notin DOMAIN dir
    /\ connected \ dead # {}

\* C4: an upload whose image was written and whose sidecar write failed ends
\* with 200 and the generated name, its image is in the directory, and new_photo
\* was emitted: when the emit did not raise, every live member of that moment was
\* sent the event.
C4_SidecarFailureIsNotFatal ==
  \A s \in Slots :
    (up[s].pc = "done" /\ up[s].saveRes = "ok" /\ up[s].metaRes \in Failed) =>
      /\ up[s].status = 200
      /\ up[s].body = [ok |-> TRUE, filename |-> up[s].fname,
                       timestamp |-> up[s].meta["received_ts"]]
      /\ log[up[s].rid].status = 200
      /\ up[s].fname \in DOMAIN dir
      /\ up[s].emitRes \in {"ok", "raised"}
      /\ up[s].emitRes = "ok" =>
           /\ up[s].bid \in 1..Len(issued)
           /\ issued[up[s].bid].event = "new_photo"
           /\ issued[up[s].bid].data.filename = up[s].fname
           /\ \A c \in issued[up[s].bid].live : Received(c, up[s].bid) # {}

C4_Witness ==
  \E s \in Slots :
    /\ up[s].pc = "done"
    /\ up[s].saveRes = "ok"
    /\ up[s].metaRes = "write_failed"
    /\ up[s].emitRes = "ok"
    /\ issued[up[s].bid].live # {}
    /\ SidecarName(up[s].fname) \in DOMAIN dir
    /\ ~JsonValid(dir[SidecarName(up[s].fname)].bytes)

\* the names the uploads received so far were given are pairwise distinct
DistinctNames ==
  \A i, j \in 1..Len(log) :
    (i # j /\ log[i].fname # None /\ log[j].fname # None) => log[i].fname # log[j].fname

Readable(d, j) ==
  SidecarName(j) \in DOMAIN d /\ JsonValid(d[SidecarName(j)].bytes)

\* C5: once every upload received so far has returned 200, under pairwise
\* distinct names, GET /api/all answers 200 with one entry per upload, the latest
\* upload first.
C5_ListAllNewestFirst ==
  (/\ Len(log) > 0
   /\ \A i \in 1..Len(log) : log[i].status = 200
   /\ DistinctNames) =>
    LET r == AllResponse(dir)
    IN  /\ r.status = 200
        /\ Len(r.body.files) = Len(log)
        /\ \A i \in 1..Len(log) : r.body.files[i].filename = log[Len(log) + 1 - i].fname

\* C6: GET /api/all answers 200 with one entry per image, whose metadata is null
\* exactly when the image's sidecar is missing or cannot be parsed.
C6_CorruptSidecarTolerated ==
  LET r == AllResponse(dir)
  IN  /\ r.status = 200
      /\ { r.body.files[i].filename : i \in 1..Len(r.body.files) } = Jpgs(dir)
      /\ \A i \in 1..Len(r.body.files) :
           LET e == r.body.files[i]
           IN  IF Readable(dir, e.filename)
                 THEN e.metadata = JsonLoad(dir[SidecarName(e.filename)].bytes)
                 ELSE e.metadata = None

\* C7: for every image without a sidecar, GET /api/all answers 200 and lists the
\* image with metadata null.
C7_MissingSidecarIsNull ==
  \A j \in Jpgs(dir) :
    SidecarName(j) \notin DOMAIN dir =>
      LET r == AllResponse(dir)
      IN  /\ r.status = 200
          /\ \E i \in 1..Len(r.body.files) :
               r.body.files[i] = [filename |-> j, metadata |-> None]

\* the uploads that returned 200
Succeeded == { i \in 1..Len(log) : log[i].status = 200 }

\* C8: GET /api/latest answers 200; its filename is null exactly when the
\* directory holds no image, else it is the greatest image name; and when no
\* upload is in flight and the names given so far are distinct, it is the name of
\* the last upload that returned 200.
C8_LatestIsNewestUpload ==
  LET r == LatestResponse(dir)
  IN  /\ r.status = 200
      /\ r.body.ok
      /\ (r.body.filename = None) = (Jpgs(dir) = {})
      /\ Jpgs(dir) # {} =>
           /\ r.body.filename \in Jpgs(dir)
           /\ \A n \in Jpgs(dir) \ {r.body.filename} : NameLess(n, r.body.filename)
      /\ (/\ Succeeded # {}
          /\ \A i \in 1..Len(log) : log[i].status # 0
          /\ DistinctNames) =>
           r.body.filename = log[CHOOSE i \in Succeeded : \A k \in Succeeded : k <= i].fname

\* C9: every new_photo broadcast reached each member whose transport was alive
\* when it was issued exactly once, with the same payload for all of them, and
\* reached no other session (one that had disconnected, or whose transport had
\* died); the upload that emitted it returned 200.
C9_NewPhotoFanOut ==
  /\ \A b \in 1..Len(issued) :
       issued[b].event = "new_photo" =>
         \A c \in Sessions :
           IF c \in issued[b].live
             THEN /\ Cardinality(Received(c, b)) = 1
                  /\ \A i \in Received(c, b) :
                       inbox[c][i] = [bid |-> b, event |-> "new_photo", data |-> issued[b].data]
             ELSE Received(c, b) = {}
  /\ \A s \in Slots :
       up[s].emitRes = "ok" =>
         /\ up[s].status = 200
         /\ up[s].bid \in 1..Len(issued)
         /\ issued[up[s].bid].event = "new_photo"
         /\ issued[up[s].bid].data.filename = up[s].fname

\* two sessions were sent one upload's event; a later upload's event went to the
\* one that was left after the other had disconnected or died
C9_Witness ==
  \E b1, b2 \in 1..Len(issued) :
    /\ issued[b1].event = "new_photo"
    /\ issued[b2].event = "new_photo"
    /\ Cardinality(issued[b1].live) = 2
    /\ \A c \in issued[b1].live : Received(c, b1) # {}
    /\ \E c, d \in Sessions :
         /\ c <= issued[b2].opened
         /\ c \notin issued[b2].live
         /\ d \in issued[b2].live
         /\ Received(d, b2) # {}
    /\ \E s \in Slots : up[s].status = 200 /\ up[s].bid = b2

\* C10: a session is only ever sent a broadcast (command or new_photo) that was
\* issued while it was a member: its connection was opened before the broadcast
\* was issued, and the recipients of a broadcast are the live members of that
\* moment.
C10_NoReplay ==
  /\ \A c \in Sessions :
       \A i \in 1..Len(inbox[c]) :
         inbox[c][i].bid # 0 =>
           /\ inbox[c][i].bid \in 1..Len(issued)
           /\ c <= issued[inbox[c][i].bid].opened
           /\ c \in issued[inbox[c][i].bid].members
  /\ \A b \in 1..Len(issued) :
       \A c \in issued[b].live : Received(c, b) # {}

C10_Witness ==
  \E b1, b2 \in 1..Len(issued) :
    /\ issued[b1].event = "command"
    /\ issued[b2].event = "new_photo"
    /\ issued[b1].live # {}
    /\ issued[b2].live # {}
    /\ \E c \in connected :
         /\ c > issued[b1].opened
         /\ c > issued[b2].opened
         /\ Len(inbox[c]) = 1

\* the new_photo broadcasts issued so far
NewPhotos == { b \in 1..Len(issued) : issued[b].event = "new_photo" }

\* C11: socketio.emit('new_photo') has been called for an upload exactly when
\* the upload returned 200 (never for one answered 401, 400 or 500, nor for one
\* still in progress); every call that did not raise issued exactly one new_photo
\* broadcast, so the broadcasts are as many as the 200 responses whose emit went
\* through, and each broadcast carries the name of one such upload.
C11_OneNotifyPerSuccess ==
  /\ \A i \in 1..Len(log) : (log[i].status = 200) = (log[i].emit # "none")
  /\ Cardinality(NewPhotos) = Cardinality({ i \in 1..Len(log) : log[i].emit = "ok" })
  /\ \A b \in NewPhotos :
       \E i \in 1..Len(log) :
         log[i].status = 200 /\ log[i].emit = "ok" /\ log[i].fname = issued[b].data.filename

\* C11 as stated: the new_photo broadcasts are as many as the uploads that
\* returned 200.
C11_BroadcastPerSuccess ==
  Cardinality(NewPhotos) = Cardinality(Succeeded)

\* one upload returned 200 and one was refused; one broadcast was issued
C11_Witness ==
  /\ \E i, k \in 1..Len(log) :
       /\ log[i].status = 200 /\ log[i].emit = "ok"
       /\ log[k].status \in {400, 401, 500}
  /\ Cardinality(NewPhotos) = 1
  /\ connected \ dead # {}

\* C12: a step that handles a 'command' event of a member issues one broadcast
\* 'command' whose payload is the type the sender gave, whatever it is (None when
\* the data had none), and appends that one event to the events of every member
\* with a live transport, the sender among them, and to no other session.
C12_RelayVerbatim ==
  [][ nCmd' = nCmd + 1 =>
        LET b    == Len(issued) + 1
            sent == IF rx'.data = None THEN None ELSE rx'.data.type
            msg  == [bid |-> b, event |-> "command", data |-> [type |-> sent]]
        IN  /\ rx'.event = "command"
            /\ rx'.sid \in connected \ dead
            /\ Len(issued') = b
            /\ issued'[b].event = "command"
            /\ issued'[b].data = [type |-> sent]
            /\ issued'[b].live = connected \ dead
            /\ \A c \in Sessions :
                 inbox'[c] = IF c \in connected \ dead THEN Append(inbox[c], msg)
                                                       ELSE inbox[c]
            /\ inbox'[rx'.sid] = Append(inbox[rx'.sid], msg)
            /\ connected' = connected ]_vars

\* a type the server knows nothing of went to both members, the sender included
C12_Witness ==
  /\ rx.event = "command"
  /\ rx.data = [type |-> Str("SELF_DESTRUCT")]
  /\ \E b \in 1..Len(issued) :
       /\ issued[b].event = "command"
       /\ issued[b].data = [type |-> Str("SELF_DESTRUCT")]
       /\ Cardinality(issued[b].live) = 2
       /\ rx.sid \in issued[b].live
       /\ \A c \in issued[b].live : Received(c, b) # {}

\* the pongs session c was sent
Pongs(c) == { i \in 1..Len(inbox[c]) : inbox[c][i].event = "pong" }

\* C13: a step that handles a 'ping' event of a member appends exactly one 'pong'
\* with the server's time to the events of the session that sent the ping, leaves
\* the events of every other session as they were, and issues no broadcast.
C13_PongToRequesterOnly ==
  [][ nPing' = nPing + 1 =>
        /\ rx'.event = "ping"
        /\ rx'.sid \in connected
        /\ inbox'[rx'.sid] = Append(inbox[rx'.sid],
                                    [bid |-> 0, event |-> "pong",
                                     data |-> [timestamp |-> PyInt(clock)]])
        /\ \A c \in Sessions \ {rx'.sid} : inbox'[c] = inbox[c]
        /\ issued' = issued
        /\ connected' = connected ]_vars

\* two live members, one of them pinged: it holds the pong, the other none
C13_Witness ==
  /\ rx.event = "ping"
  /\ Cardinality(connected \ dead) = 2
  /\ Cardinality(Pongs(rx.sid)) = 1
  /\ \A c \in Sessions \ {rx.sid} : Pongs(c) = {}

\* the connections the transport has opened so far
Opened == 1..(nextSid - 1)

\* C14: after every step the members of the hub are exactly the connections
\* opened and not yet closed by a disconnect event; the step that handles a
\* session's disconnect removes it; a session whose disconnect has been handled
\* is sent nothing any more and never becomes a member again; and whoever is sent
\* an event in a step is a member.
C14_MembersAreOpenConnections ==
  [][ /\ connected' = (1..(nextSid' - 1)) \ closed'
      /\ \A c \in closed' \ closed : c \in connected /\ c \notin connected'
      /\ \A c \in closed : inbox'[c] = inbox[c] /\ c \notin connected'
      /\ \A c \in Sessions : inbox'[c] # inbox[c] => c \in connected' ]_vars

\* a session disconnected; a relay, a notification and a pong that came later
\* reached the session that was still a member, and not the one that had left
C14_Witness ==
  \E c \in closed, d \in connected \ dead :
    /\ \E b \in 1..Len(issued) :
         /\ issued[b].event = "command"
         /\ c \in Opened /\ c <= issued[b].opened /\ c \notin issued[b].members
         /\ Received(d, b) # {} /\ Received(c, b) = {}
    /\ \E b \in NewPhotos :
         /\ c <= issued[b].opened /\ c \notin issued[b].members
         /\ Received(d, b) # {} /\ Received(c, b) = {}
    /\ Pongs(d) # {}
    /\ Pongs(c) = {}

\* the uploads that passed the checks and were given a name
Named(l) == { i \in 1..Len(l) : l[i].fname # None }

\* an authorized request with a photo part that has a filename
ValidUpload(req) ==
  ~BadToken(req) /\ req.photo # None /\ req.photo.filename # Str("")

C16_SidecarFields ==
  [][ \A s \in Slots :
        (up[s].pc = "meta" /\ up'[s].metaRes = "ok") =>
          LET text == dir'[SidecarName(up[s].fname)].bytes
              m    == JsonLoad(text)
              form == up[s].req.form
          IN  /\ JsonValid(text)
              /\ \A i \in 1..Len(FormKeys) :
                   LET k == FormKeys[i]
                       v == form[k]
                   IN  IF v = None \/ v = Str("") THEN k \notin DOMAIN m
                       ELSE /\ k \in DOMAIN m
                            /\ m[k] = IF v.str \in DOMAIN FloatTable
                                        THEN PyFloat(FloatTable[v.str]) ELSE v
              /\ "photo_filename" \in DOMAIN m
              /\ m["photo_filename"] = up[s].fname
              /\ "received_ts" \in DOMAIN m
              /\ m["received_ts"] = up[s].meta["received_ts"]
              /\ DOMAIN m \subseteq {"lat", "lon", "accuracy", "location_ts",
                                     "received_ts", "photo_filename"} ]_vars

\* a form with a numeric lat, a lon that is no number, an empty accuracy and no
\* location_ts, and the sidecar written for it
C16_Witness ==
  \E s \in Slots :
    /\ up[s].metaRes = "ok"
    /\ up[s].status = 200
    /\ up[s].req.form = [lat |-> Str("40.7"), lon |-> Str("abc"), accuracy |-> Str(""),
                         location_ts |-> None]
    /\ JsonValid(dir[SidecarName(up[s].fname)].bytes)
    /\ JsonLoad(dir[SidecarName(up[s].fname)].bytes) =
         [lat |-> PyFloat(407), lon |-> Str("abc"), received_ts |-> PyInt(clock),
          photo_filename |-> up[s].fname]

\* C17: an upload whose image write succeeded is at the sidecar write, at the
\* emit with the sidecar write attempted, or done with both attempted and status
\* 200; and it does get there: it ends with 200, the generated name and its
\* received_ts, whether the sidecar write and the emit succeeded or not.
C17_CommittedRunsToEnd ==
  /\ [](\A s \in Slots :
          up[s].saveRes = "ok" =>
            /\ up[s].pc \in {"meta", "notify", "done"}
            /\ up[s].pc = "meta" => up[s].metaRes = "none" /\ up[s].emitRes = "none"
            /\ up[s].pc = "notify" => up[s].metaRes # "none" /\ up[s].emitRes = "none"
            /\ up[s].pc = "done" =>
                 /\ up[s].metaRes # "none"
                 /\ up[s].emitRes # "none"
                 /\ up[s].status = 200)
  /\ \A s \in Slots : \A r \in 1..MaxUploads :
       (up[s].rid = r /\ up[s].saveRes = "ok" /\ up[s].pc # "done") ~>
         (/\ up[s].rid = r
          /\ up[s].pc = "done"
          /\ up[s].status = 200
          /\ up[s].body = [ok |-> TRUE, filename |-> up[s].fname,
                           timestamp |-> up[s].meta["received_ts"]]
          /\ resp = Json(200, up[s].body))

\* an upload returned 200 although its sidecar write and its emit both failed
C17_Witness ==
  \E s \in Slots :
    /\ up[s].saveRes = "ok"
    /\ up[s].metaRes \in Failed
    /\ up[s].emitRes = "raised"
    /\ up[s].pc = "done"
    /\ up[s].status = 200

\* the entries GET /api/all lists under name f
Entries(r, f) == { i \in 1..Len(r.body.files) : r.body.files[i].filename = f }

\* C18: while an upload is between its name and its response, and the names
\* given so far are distinct, GET /api/all answers 200; it lists only images of
\* the directory; and for the name of that upload it has no entry, or an entry
\* with metadata null, or an entry with the metadata the upload built.
C18_ListAllDuringUpload ==
  \A s \in Slots :
    (up[s].pc \in {"save", "meta", "notify"} /\ DistinctNames) =>
      LET r == AllResponse(dir)
      IN  /\ r.status = 200
          /\ \A i \in 1..Len(r.body.files) : r.body.files[i].filename \in Jpgs(dir)
          /\ \A i \in Entries(r, up[s].fname) :
               \/ r.body.files[i].metadata = None
               \/ r.body.files[i].metadata = up[s].meta

\* C19: after every step each sidecar of the directory has the image of its
\* stem next to it and each image one sidecar at most; no step removes a file;
\* a sidecar is created or rewritten only by the sidecar step of an upload whose
\* image write succeeded and whose image is stored; and the directory is changed
\* by nothing but the save step and the sidecar step of an upload: not by an
\* upload that is refused, a command, a ping, a connect or a listing.
C19_StoreOnlyGrows ==
  [][ /\ \A n \in DOMAIN dir' : n.ext = "json" => PhotoName(n.stem) \in DOMAIN dir'
      /\ \A j \in Jpgs(dir') :
           Cardinality({ n \in DOMAIN dir' : n.ext = "json" /\ n.stem = j.stem }) <= 1
      /\ DOMAIN dir \subseteq DOMAIN dir'
      /\ \A n \in DOMAIN dir' :
           (n.ext = "json" /\ (n \notin DOMAIN dir \/ dir'[n] # dir[n])) =>
             \E s \in Slots :
               /\ up[s].pc = "meta"
               /\ up[s].saveRes = "ok"
               /\ SidecarName(up[s].fname) = n
               /\ up[s].fname \in DOMAIN dir
      /\ dir' # dir =>
           \E s \in Slots : up[s].pc \in {"save", "meta"} /\ up'[s].pc # up[s].pc
      /\ \A s \in Slots : (up'[s].rid # up[s].rid /\ up'[s].pc = "done") => dir' = dir
      /\ (nCmd' # nCmd \/ nPing' # nPing \/ nextSid' # nextSid) => dir' = dir
      /\ resp'.route \in {"/api/latest", "/api/all", "/health"} => dir' = dir ]_vars

\* an image and its sidecar are stored; an upload was refused, a command and a
\* ping were handled, and the last request was a listing
C19_Witness ==
  /\ \E j \in Jpgs(dir) : SidecarName(j) \in DOMAIN dir
  /\ \E i \in 1..Len(log) : log[i].status \in {400, 401}
  /\ nCmd > 0
  /\ nPing > 0
  /\ resp.route = "/api/all"

\* the form field was sent and is not empty
Supplied(v) == v # None /\ v # Str("")

\* C20: the step that ends an upload with 200 answers with the generated name
\* and the received_ts the handler computed; when its emit goes through, the
\* new_photo it issues carries the same name and the same timestamp, and
\* has_location is true exactly when lat and lon were both sent non-empty,
\* whatever accuracy and location_ts hold and however the sidecar write went; the
\* sidecar a successful sidecar write leaves holds that name and that timestamp;
\* and neither value changes between the sidecar step and the response.
C20_OneNameOneTimestamp ==
  [][ \A s \in Slots :
        /\ (up[s].pc = "notify" /\ up'[s].pc = "done") =>
             /\ resp'.status = 200
             /\ resp'.body.filename = up[s].fname
             /\ resp'.body.timestamp = up[s].meta["received_ts"]
             /\ up'[s].emitRes = "ok" =>
                  LET e == issued'[Len(issued')]
                  IN  /\ Len(issued') = Len(issued) + 1
                      /\ e.event = "new_photo"
                      /\ e.data.filename = resp'.body.filename
                      /\ e.data.timestamp = resp'.body.timestamp
                      /\ e.data.has_location =
                           (Supplied(up[s].req.form.lat) /\ Supplied(up[s].req.form.lon))
        /\ (up[s].pc = "meta" /\ up'[s].metaRes = "ok") =>
             LET m == JsonLoad(dir'[SidecarName(up[s].fname)].bytes)
             IN  /\ m["photo_filename"] = up[s].fname
                 /\ m["received_ts"] = up[s].meta["received_ts"]
        /\ (up[s].pc \in {"meta", "notify"}) =>
             /\ up'[s].rid = up[s].rid
             /\ up'[s].fname = up[s].fname
             /\ up'[s].meta = up[s].meta ]_vars

\* lat and lon were sent, lon not a number, accuracy not a number; the sidecar
\* write failed; the event says has_location and names what the response names
C20_Witness ==
  \E s \in Slots :
    /\ up[s].pc = "done"
    /\ up[s].status = 200
    /\ up[s].req.form = [lat |-> Str("40.7"), lon |-> Str("abc"), accuracy |-> Str("abc"),
                         location_ts |-> None]
    /\ up[s].metaRes \in Failed
    /\ up[s].emitRes = "ok"
    /\ issued[up[s].bid].data =
         [filename |-> up[s].body.filename, timestamp |-> up[s].body.timestamp,
          has_location |-> TRUE]
====
